---------------------------- MODULE Spec2Model ----------------------------
(***************************************************************************)
(* react-a11y-utils: the ARIA attribute mappers, the four pre-built        *)
(* attribute sets, the two style presets and mergeA11yProps, over a heap   *)
(* of JavaScript objects held by reference.                                *)
(***************************************************************************)
EXTENDS Integers, Sequences, FiniteSets, TLC

\* Objects the callers allocate on top of the six module-level ones (Spec).
MaxObjects == 2
\* Longest argument list handed to mergeA11yProps.
MaxArgs == 2
\* Objects the callers allocate in SpecMappers (one per mapper call).
MaxMapperCalls == 1
\* Objects the callers allocate in SpecWrites.
MaxHeld == 1
\* Property writes the callers perform on objects they hold (SpecWrites).
MaxWrites == 1

\* Objects the mappers return in SpecFresh.
MaxFresh == 2

VARIABLES
  heap,     \* the objects, by allocation order; a reference is an index
  before,   \* the heap on entry to the last library call
  call,     \* the last library call: operation, arguments, outcome, result
  written,  \* the objects the callers wrote to since that call
  writes,   \* the number of writes the callers performed
  caller,   \* the caller that is running
  owners    \* for each object, the callers that hold a reference to it

vars == <<heap, before, call, written, writes, caller, owners>>

---------------------------------------------------------------------------
(* JavaScript values: a tag and one payload field per primitive type; an   *)
(* object value carries the heap index of the object it refers to.         *)

Str(s) == [type |-> "string", str |-> s, num |-> 0, bool |-> FALSE]

Num(n) == [type |-> "number", str |-> "", num |-> n, bool |-> FALSE]

Bool(b) == [type |-> "boolean", str |-> "", num |-> 0, bool |-> b]

Undefined == [type |-> "undefined", str |-> "", num |-> 0, bool |-> FALSE]

Ref(i) == [type |-> "object", str |-> "", num |-> i, bool |-> FALSE]

\* The condition of `c ? a : b` and of `if (c)`.
ToBoolean(v) ==
  CASE v.type = "boolean" -> v.bool
    [] v.type = "string" -> v.str # ""
    [] v.type = "number" -> v.num # 0
    [] v.type = "object" -> TRUE
    [] OTHER -> FALSE

\* A parameter or destructuring default: `x = d` takes d when x is undefined.
Default(v, d) == IF v = Undefined THEN d ELSE v

\* The object literal {}.
EmptyObject == [k \in {} |-> Undefined]

\* obj[key] = value, and the entry `key: value` of an object literal.
Put(obj, key, value) ==
  [k \in DOMAIN obj \cup {key} |-> IF k = key THEN value ELSE obj[k]]

\* obj[key]: undefined when the object has no such property.
Get(obj, key) == IF key \in DOMAIN obj THEN obj[key] ELSE Undefined

\* The argument at position i of a call, undefined when it was not passed.
Arg(args, i) == IF i <= Len(args) THEN args[i] ELSE Undefined

---------------------------------------------------------------------------
(* Module-level constants.                                                 *)

\* Mutant: the preset leaves the border as it is.
srOnly_NoBorder ==
  ("position" :> Str("absolute")) @@ ("width" :> Str("1px")) @@
  ("height" :> Str("1px")) @@ ("padding" :> Str("0")) @@
  ("margin" :> Str("-1px")) @@ ("overflow" :> Str("hidden")) @@
  ("clip" :> Str("rect(0, 0, 0, 0)")) @@ ("whiteSpace" :> Str("nowrap"))

srOnly ==
  ("position" :> Str("absolute")) @@ ("width" :> Str("1px")) @@
  ("height" :> Str("1px")) @@ ("padding" :> Str("0")) @@
  ("margin" :> Str("-1px")) @@ ("overflow" :> Str("hidden")) @@
  ("clip" :> Str("rect(0, 0, 0, 0)")) @@ ("whiteSpace" :> Str("nowrap")) @@
  ("borderWidth" :> Str("0"))

\* Mutant: the preset does not lift the clipping of the overflow.
srOnlyFocusable_OverflowKept ==
  ("position" :> Str("absolute")) @@ ("width" :> Str("auto")) @@
  ("height" :> Str("auto")) @@ ("padding" :> Str("1rem")) @@
  ("margin" :> Str("0")) @@ ("clip" :> Str("auto")) @@
  ("whiteSpace" :> Str("normal"))

srOnlyFocusable ==
  ("position" :> Str("absolute")) @@ ("width" :> Str("auto")) @@
  ("height" :> Str("auto")) @@ ("padding" :> Str("1rem")) @@
  ("margin" :> Str("0")) @@ ("overflow" :> Str("visible")) @@
  ("clip" :> Str("auto")) @@ ("whiteSpace" :> Str("normal"))

decorative == ("aria-hidden" :> Str("true"))

\* Mutant: a disabled element stays in the tab order.
disabledProps_Focusable ==
  ("aria-disabled" :> Str("true")) @@ ("tabIndex" :> Num(0))

disabledProps == ("aria-disabled" :> Str("true")) @@ ("tabIndex" :> Num(-1))

statusMessageProps == ("role" :> Str("status")) @@ ("aria-live" :> Str("polite"))

alertMessageProps == ("role" :> Str("alert")) @@ ("aria-live" :> Str("assertive"))

\* The exported constants in the order the module body creates them.
ModuleNames ==
  <<"srOnly", "srOnlyFocusable", "decorative", "disabledProps",
    "statusMessageProps", "alertMessageProps">>

\* The heap once the module body has run.
ModuleHeap ==
  <<srOnly, srOnlyFocusable, decorative, disabledProps,
    statusMessageProps, alertMessageProps>>

\* The reference an importer of the named constant holds.
Import(name) ==
  Ref(CHOOSE i \in 1..Len(ModuleNames) : ModuleNames[i] = name)

\* The four pre-built AccessibilityProps constants.
StaticRefs ==
  {Import(n) : n \in {"decorative", "disabledProps",
                      "statusMessageProps", "alertMessageProps"}}

---------------------------------------------------------------------------
(* Factory functions: the object each one returns.                         *)

\* Mutant: the default assertiveness is "assertive".
createLiveRegion_AssertiveDefault(options_) ==
  LET options == IF options_ = Undefined THEN EmptyObject ELSE options_
      atomic == Default(Get(options, "atomic"), Bool(FALSE))
      relevant == Default(Get(options, "relevant"), Str("additions"))
      busy == Default(Get(options, "busy"), Bool(FALSE))
      live == Default(Get(options, "live"), Str("assertive"))
  IN ("aria-live" :> live) @@
     ("aria-atomic" :> Str(IF ToBoolean(atomic) THEN "true" ELSE "false")) @@
     ("aria-relevant" :> relevant) @@
     ("aria-busy" :> Str(IF ToBoolean(busy) THEN "true" ELSE "false"))

\* Mutant: aria-busy is computed from atomic instead of busy.
createLiveRegion_BusyFromAtomic(options_) ==
  LET options == IF options_ = Undefined THEN EmptyObject ELSE options_
      atomic == Default(Get(options, "atomic"), Bool(FALSE))
      relevant == Default(Get(options, "relevant"), Str("additions"))
      live == Default(Get(options, "live"), Str("polite"))
  IN ("aria-live" :> live) @@
     ("aria-atomic" :> Str(IF ToBoolean(atomic) THEN "true" ELSE "false")) @@
     ("aria-relevant" :> relevant) @@
     ("aria-busy" :> Str(IF ToBoolean(atomic) THEN "true" ELSE "false"))

createLiveRegion(options_) ==
  LET options == IF options_ = Undefined THEN EmptyObject ELSE options_
      atomic == Default(Get(options, "atomic"), Bool(FALSE))
      relevant == Default(Get(options, "relevant"), Str("additions"))
      busy == Default(Get(options, "busy"), Bool(FALSE))
      live == Default(Get(options, "live"), Str("polite"))
  IN ("aria-live" :> live) @@
     ("aria-atomic" :> Str(IF ToBoolean(atomic) THEN "true" ELSE "false")) @@
     ("aria-relevant" :> relevant) @@
     ("aria-busy" :> Str(IF ToBoolean(busy) THEN "true" ELSE "false"))

\* Mutant: the href is the bare target id, without the fragment marker.
createSkipLinkProps_NoFragment(targetId) ==
  ("href" :> targetId) @@ ("tabIndex" :> Num(0))

\* Mutant: the tab order is written as the string "0".
createSkipLinkProps_StringTabIndex(targetId) ==
  ("href" :> Str("#" \o targetId.str)) @@ ("tabIndex" :> Str("0"))

createSkipLinkProps(targetId) ==
  ("href" :> Str("#" \o targetId.str)) @@ ("tabIndex" :> Num(0))

\* Mutant: the controlled id is fragment-prefixed, as a skip link's href is.
createDisclosureProps_FragmentId(expanded, controlsId) ==
  ("aria-expanded" :> Str(IF ToBoolean(expanded) THEN "true" ELSE "false")) @@
  ("aria-controls" :> Str("#" \o controlsId.str))

\* Mutant: an empty id is taken as no id and aria-controls is left out.
createDisclosureProps_OmitsEmptyControls(expanded, controlsId) ==
  LET props ==
        ("aria-expanded" :> Str(IF ToBoolean(expanded) THEN "true" ELSE "false"))
  IN IF controlsId.str = "" THEN props
     ELSE Put(props, "aria-controls", controlsId)

createDisclosureProps(expanded, controlsId) ==
  ("aria-expanded" :> Str(IF ToBoolean(expanded) THEN "true" ELSE "false")) @@
  ("aria-controls" :> controlsId)

\* Mutant: the boolean is emitted as it came, not as a string.
createPressedProps_Native(pressed) == ("aria-pressed" :> pressed)

createPressedProps(pressed) ==
  ("aria-pressed" :> Str(IF ToBoolean(pressed) THEN "true" ELSE "false"))

\* Mutant: the two branches of the conditional are swapped.
createSelectedProps_Swapped(selected) ==
  ("aria-selected" :> Str(IF ToBoolean(selected) THEN "false" ELSE "true"))

createSelectedProps(selected) ==
  ("aria-selected" :> Str(IF ToBoolean(selected) THEN "true" ELSE "false"))

\* Mutant: no typeof test, so "mixed" goes through the conditional.
createCheckedProps_NoPassThrough(checked) ==
  ("aria-checked" :> Str(IF ToBoolean(checked) THEN "true" ELSE "false"))

createCheckedProps(checked) ==
  ("aria-checked" :>
     IF checked.type = "string"
     THEN checked
     ELSE Str(IF ToBoolean(checked) THEN "true" ELSE "false"))

\* Mutant: the popup is announced only while the dialog is open.
createDialogTriggerProps_HaspopupWhenOpen(dialogId, isOpen) ==
  ("aria-haspopup" :> Str(IF ToBoolean(isOpen) THEN "dialog" ELSE "false")) @@
  ("aria-controls" :> dialogId) @@
  ("aria-expanded" :> Str(IF ToBoolean(isOpen) THEN "true" ELSE "false"))

createDialogTriggerProps(dialogId, isOpen) ==
  ("aria-haspopup" :> Str("dialog")) @@
  ("aria-controls" :> dialogId) @@
  ("aria-expanded" :> Str(IF ToBoolean(isOpen) THEN "true" ELSE "false"))

\* Mutant: a field is invalid unless it is said to be valid.
createFormFieldProps_InvalidByDefault(required, invalid_) ==
  LET invalid == Default(invalid_, Bool(TRUE))
      props ==
        ("aria-required" :> Str(IF ToBoolean(required) THEN "true" ELSE "false"))
  IN IF ToBoolean(invalid)
     THEN Put(props, "aria-invalid", Str("true"))
     ELSE props

\* Mutant: aria-invalid is always emitted, mirroring invalid.
createFormFieldProps_InvalidMirrored(required, invalid_) ==
  LET invalid == Default(invalid_, Bool(FALSE))
  IN ("aria-required" :>
        Str(IF ToBoolean(required) THEN "true" ELSE "false")) @@
     ("aria-invalid" :> Str(IF ToBoolean(invalid) THEN "true" ELSE "false"))

createFormFieldProps(required, invalid_) ==
  LET invalid == Default(invalid_, Bool(FALSE))
      props == ("aria-required" :>
                  Str(IF ToBoolean(required) THEN "true" ELSE "false"))
  IN IF ToBoolean(invalid)
     THEN Put(props, "aria-invalid", Str("true"))
     ELSE props

createDescribedByProps(describedById) == ("aria-describedby" :> describedById)

\* Mutant: the labelling mapper writes the describing key.
createLabelledByProps_DescribedByKey(labelledById) ==
  ("aria-describedby" :> labelledById)

createLabelledByProps(labelledById) == ("aria-labelledby" :> labelledById)

---------------------------------------------------------------------------
(* The attribute vocabulary: interface AccessibilityProps.                 *)

TrueFalse == {"true", "false"}

\* The attributes declared with a union of string literals, and the union.
EnumAttributes ==
  ("aria-atomic" :> TrueFalse) @@
  ("aria-autocomplete" :> {"inline", "list", "both", "none"}) @@
  ("aria-busy" :> TrueFalse) @@
  ("aria-checked" :> {"true", "false", "mixed"}) @@
  ("aria-current" :>
     {"page", "step", "location", "date", "time", "true", "false"}) @@
  ("aria-disabled" :> TrueFalse) @@
  ("aria-dropeffect" :>
     {"copy", "execute", "link", "move", "none", "popup"}) @@
  ("aria-expanded" :> TrueFalse) @@
  ("aria-grabbed" :> TrueFalse) @@
  ("aria-haspopup" :>
     {"false", "true", "menu", "listbox", "tree", "grid", "dialog"}) @@
  ("aria-hidden" :> TrueFalse) @@
  ("aria-invalid" :> {"true", "false", "grammar", "spelling"}) @@
  ("aria-live" :> {"off", "polite", "assertive"}) @@
  ("aria-modal" :> TrueFalse) @@
  ("aria-multiline" :> TrueFalse) @@
  ("aria-multiselectable" :> TrueFalse) @@
  ("aria-orientation" :> {"horizontal", "vertical"}) @@
  ("aria-pressed" :> {"true", "false", "mixed"}) @@
  ("aria-readonly" :> TrueFalse) @@
  ("aria-relevant" :> {"additions", "removals", "text", "all"}) @@
  ("aria-required" :> TrueFalse) @@
  ("aria-selected" :> TrueFalse) @@
  ("aria-sort" :> {"ascending", "descending", "none", "other"})

\* The attributes declared as string.
StringAttributes ==
  {"aria-activedescendant", "aria-controls", "aria-describedby",
   "aria-details", "aria-errormessage", "aria-flowto", "aria-keyshortcuts",
   "aria-label", "aria-labelledby", "aria-owns", "aria-placeholder",
   "aria-roledescription", "aria-valuetext", "role"}

\* The attributes declared as number.
NumberAttributes ==
  {"aria-colcount", "aria-colindex", "aria-colspan", "aria-level",
   "aria-posinset", "aria-rowcount", "aria-rowindex", "aria-rowspan",
   "aria-setsize", "aria-valuemax", "aria-valuemin", "aria-valuenow",
   "tabIndex"}

\* Value v is of the type declared for key k.  href is no key of the
\* interface: createSkipLinkProps declares it, as string, in its return type.
Declared(k, v) ==
  CASE k \in DOMAIN EnumAttributes ->
         v.type = "string" /\ v.str \in EnumAttributes[k]
    [] k \in StringAttributes \cup {"href"} -> v.type = "string"
    [] k \in NumberAttributes -> v.type = "number" /\ v.num \in Int
    [] OTHER -> FALSE

---------------------------------------------------------------------------
(* mergeA11yProps: Object.assign({}, ...props) on the heap.                *)

\* One source of Object.assign: every own property of heap object `source`
\* is written to heap object `target`; no other object is written.
AssignSource(h, target, source) ==
  [h EXCEPT ![target] =
     [k \in DOMAIN h[target] \cup DOMAIN h[source] |->
        IF k \in DOMAIN h[source] THEN h[source][k] ELSE h[target][k]]]

\* Object.assign(target, ...sources): the sources in argument order.
RECURSIVE ObjectAssign(_, _, _)
ObjectAssign(h, target, sources) ==
  IF sources = <<>>
  THEN h
  ELSE ObjectAssign(AssignSource(h, target, Head(sources).num),
                    target, Tail(sources))

Reverse(seq) == [i \in 1..Len(seq) |-> seq[Len(seq) + 1 - i]]

\* Mutant: the arguments are assigned last to first, so the earliest wins.
mergeA11yProps_EarlierWins(h, props) ==
  LET fresh == Len(h) + 1
  IN [heap |-> ObjectAssign(Append(h, EmptyObject), fresh, Reverse(props)),
      outcome |-> "return",
      ret |-> Ref(fresh)]

\* Mutant: Object.assign(...props), with no {} target: the first argument is
\* the target, and Object.assign() of nothing throws a TypeError.
mergeA11yProps_NoFreshTarget(h, props) ==
  IF props = <<>>
  THEN [heap |-> h, outcome |-> "throw", ret |-> Undefined]
  ELSE [heap |-> ObjectAssign(h, Head(props).num, Tail(props)),
        outcome |-> "return",
        ret |-> Head(props)]

\* Mutant: props.reduce((a, b) => ({...a, ...b})), with no initial value: it
\* throws on an empty list and returns a lone argument itself.
mergeA11yProps_ReduceNoInit(h, props) ==
  IF props = <<>>
  THEN [heap |-> h, outcome |-> "throw", ret |-> Undefined]
  ELSE IF Len(props) = 1
  THEN [heap |-> h, outcome |-> "return", ret |-> Head(props)]
  ELSE [heap |-> ObjectAssign(Append(h, EmptyObject), Len(h) + 1, props),
        outcome |-> "return",
        ret |-> Ref(Len(h) + 1)]

\* Mutant: the target is not a new {} but starts from the object allocated
\* last, as a result kept at module level between calls would.
mergeA11yProps_KeepsPrevious(h, props) ==
  LET fresh == Len(h) + 1
      start == IF Len(h) > Len(ModuleHeap) THEN h[Len(h)] ELSE EmptyObject
  IN [heap |-> ObjectAssign(Append(h, start), fresh, props),
      outcome |-> "return",
      ret |-> Ref(fresh)]

\* Mutant: only the keys of the first argument are merged, the later
\* arguments overriding their values but adding none.
mergeA11yProps_FirstKeysOnly(h, props) ==
  LET fresh == Len(h) + 1
      all == ObjectAssign(Append(h, EmptyObject), fresh, props)
      keys == IF props = <<>> THEN {} ELSE DOMAIN h[props[1].num]
  IN [heap |-> [all EXCEPT ![fresh] = [k \in keys |-> all[fresh][k]]],
      outcome |-> "return",
      ret |-> Ref(fresh)]

\* The call on heap h with the references props: the heap it leaves, how it
\* ends and the value it returns.
mergeA11yProps(h, props) ==
  LET fresh == Len(h) + 1
  IN [heap |-> ObjectAssign(Append(h, EmptyObject), fresh, props),
      outcome |-> "return",
      ret |-> Ref(fresh)]

---------------------------------------------------------------------------
(* Inputs.  `full` selects the whole declared input domain of a mapper     *)
(* (SpecMappers); otherwise a few representatives are drawn (Spec).        *)

Booleans == {Bool(TRUE), Bool(FALSE)}

Ids(full) ==
  IF full THEN {Str(""), Str("main"), Str("panel-1")} ELSE {Str("panel-1")}

\* The declared domain of each LiveRegionOptions field.
OptionDomain(field) ==
  CASE field = "atomic" -> Booleans
    [] field = "relevant" ->
         {Str("additions"), Str("removals"), Str("text"), Str("all")}
    [] field = "busy" -> Booleans
    [] field = "live" -> {Str("polite"), Str("assertive")}

OptionFields == {"atomic", "relevant", "busy", "live"}

OptionValues == UNION {OptionDomain(f) : f \in OptionFields}

\* Every LiveRegionOptions record: any subset of the fields, each in its domain.
AllLiveRegionOptions ==
  UNION {{o \in [D -> OptionValues] : \A f \in D : o[f] \in OptionDomain(f)} :
           D \in SUBSET OptionFields}

LiveRegionOptions(full) ==
  IF full
  THEN AllLiveRegionOptions
  ELSE {EmptyObject,
        ("atomic" :> Bool(TRUE)) @@ ("live" :> Str("assertive"))}

\* Object literals the callers write themselves.
Literals ==
  {EmptyObject,
   ("aria-label" :> Str("Original")),
   ("aria-label" :> Str("Additional")),
   ("role" :> Str("button"))}

\* The call sites: each imports the module and holds the exported objects.
Callers == {"c1", "c2"}

\* Properties a caller may set on an object it holds.
WriteSet == {<<"aria-label", Str("Edited")>>, <<"aria-live", Str("off")>>}

---------------------------------------------------------------------------
(* State.                                                                  *)

Init ==
  /\ heap = ModuleHeap
  /\ before = ModuleHeap
  /\ call = [op |-> "import", args |-> <<>>, outcome |-> "return",
             ret |-> Undefined]
  /\ written = {}
  /\ writes = 0
  /\ caller = "c1"
  /\ owners = [i \in 1..Len(ModuleHeap) |-> Callers]

\* Objects allocated by the callers so far.
Allocated == Len(heap) - Len(ModuleHeap)

\* Mutant: results are memoized: a call whose result is already on the
\* heap returns that object again instead of a new one.
Returns_Memoized(op, args, obj) ==
  LET hits == {i \in (Len(ModuleHeap) + 1)..Len(heap) : heap[i] = obj}
      hit == CHOOSE i \in hits : TRUE
  IN /\ heap' = IF hits = {} THEN Append(heap, obj) ELSE heap
     /\ before' = heap
     /\ call' = [op |-> op, args |-> args, outcome |-> "return",
                 ret |-> IF hits = {} THEN Ref(Len(heap) + 1) ELSE Ref(hit)]
     /\ written' = {}
     /\ owners' = IF hits = {} THEN Append(owners, {caller})
                  ELSE [owners EXCEPT ![hit] = @ \cup {caller}]
     /\ UNCHANGED <<writes, caller>>

\* A factory call that returns the new object obj.
Returns(op, args, obj) ==
  /\ heap' = Append(heap, obj)
  /\ before' = heap
  /\ call' = [op |-> op, args |-> args, outcome |-> "return",
              ret |-> Ref(Len(heap) + 1)]
  /\ written' = {}
  /\ owners' = Append(owners, {caller})
  /\ UNCHANGED <<writes, caller>>

CallCreateLiveRegion(full, cap) ==
  /\ Allocated < cap
  /\ \/ Returns("createLiveRegion", <<>>, createLiveRegion(Undefined))
     \/ \E options \in LiveRegionOptions(full) :
          Returns("createLiveRegion", <<options>>, createLiveRegion(options))

CallCreateSkipLinkProps(full, cap) ==
  /\ Allocated < cap
  /\ \E targetId \in Ids(full) :
       Returns("createSkipLinkProps", <<targetId>>,
               createSkipLinkProps(targetId))

CallCreateDisclosureProps(full, cap) ==
  /\ Allocated < cap
  /\ \E expanded \in Booleans, controlsId \in Ids(full) :
       Returns("createDisclosureProps", <<expanded, controlsId>>,
               createDisclosureProps(expanded, controlsId))

CallCreatePressedProps(full, cap) ==
  /\ Allocated < cap
  /\ \E pressed \in Booleans :
       Returns("createPressedProps", <<pressed>>, createPressedProps(pressed))

CallCreateSelectedProps(full, cap) ==
  /\ Allocated < cap
  /\ \E selected \in Booleans :
       Returns("createSelectedProps", <<selected>>,
               createSelectedProps(selected))

CallCreateCheckedProps(full, cap) ==
  /\ Allocated < cap
  /\ \E checked \in Booleans \cup {Str("mixed")} :
       Returns("createCheckedProps", <<checked>>, createCheckedProps(checked))

CallCreateDialogTriggerProps(full, cap) ==
  /\ Allocated < cap
  /\ \E dialogId \in Ids(full), isOpen \in Booleans :
       Returns("createDialogTriggerProps", <<dialogId, isOpen>>,
               createDialogTriggerProps(dialogId, isOpen))

\* The second argument is passed or left out.
CallCreateFormFieldProps(full, cap) ==
  /\ Allocated < cap
  /\ \E required \in Booleans :
       \E args \in {<<required>>} \cup {<<required, i>> : i \in Booleans} :
          Returns("createFormFieldProps", args,
                  createFormFieldProps(Arg(args, 1), Arg(args, 2)))

CallCreateDescribedByProps(full, cap) ==
  /\ Allocated < cap
  /\ \E describedById \in Ids(full) :
       Returns("createDescribedByProps", <<describedById>>,
               createDescribedByProps(describedById))

CallCreateLabelledByProps(full, cap) ==
  /\ Allocated < cap
  /\ \E labelledById \in Ids(full) :
       Returns("createLabelledByProps", <<labelledById>>,
               createLabelledByProps(labelledById))

\* The ten mappers, by exported name.
MapperOps ==
  {"createLiveRegion", "createSkipLinkProps", "createDisclosureProps",
   "createPressedProps", "createSelectedProps", "createCheckedProps",
   "createDialogTriggerProps", "createFormFieldProps",
   "createDescribedByProps", "createLabelledByProps"}

\* The object the mapper op returns for the argument list args.
Apply(op, args) ==
  CASE op = "createLiveRegion" -> createLiveRegion(Arg(args, 1))
    [] op = "createSkipLinkProps" -> createSkipLinkProps(Arg(args, 1))
    [] op = "createDisclosureProps" ->
         createDisclosureProps(Arg(args, 1), Arg(args, 2))
    [] op = "createPressedProps" -> createPressedProps(Arg(args, 1))
    [] op = "createSelectedProps" -> createSelectedProps(Arg(args, 1))
    [] op = "createCheckedProps" -> createCheckedProps(Arg(args, 1))
    [] op = "createDialogTriggerProps" ->
         createDialogTriggerProps(Arg(args, 1), Arg(args, 2))
    [] op = "createFormFieldProps" ->
         createFormFieldProps(Arg(args, 1), Arg(args, 2))
    [] op = "createDescribedByProps" -> createDescribedByProps(Arg(args, 1))
    [] op = "createLabelledByProps" -> createLabelledByProps(Arg(args, 1))

\* One in-domain argument list per mapper.
SampleArgs(op) ==
  CASE op = "createLiveRegion" -> <<("live" :> Str("polite"))>>
    [] op = "createSkipLinkProps" -> <<Str("main")>>
    [] op = "createDisclosureProps" -> <<Bool(TRUE), Str("panel-1")>>
    [] op = "createPressedProps" -> <<Bool(TRUE)>>
    [] op = "createSelectedProps" -> <<Bool(FALSE)>>
    [] op = "createCheckedProps" -> <<Str("mixed")>>
    [] op = "createDialogTriggerProps" -> <<Str("panel-1"), Bool(FALSE)>>
    [] op = "createFormFieldProps" -> <<Bool(TRUE), Bool(TRUE)>>
    [] op = "createDescribedByProps" -> <<Str("main")>>
    [] op = "createLabelledByProps" -> <<Str("main")>>

\* The running caller calls some mapper with its sample arguments.
CallMapper(cap) ==
  /\ Allocated < cap
  /\ \E op \in MapperOps :
       Returns(op, SampleArgs(op), Apply(op, SampleArgs(op)))

\* References to AccessibilityProps objects a caller can pass on.
AttributeRefs ==
  StaticRefs \cup
  {Ref(i) : i \in {j \in (Len(ModuleHeap) + 1)..Len(heap) : caller \in owners[j]}}

ArgLists == UNION {[1..n -> AttributeRefs] : n \in 0..MaxArgs}

\* The owners once the running caller has received the value ret.
Received(o, ret) ==
  IF ret.type # "object" THEN o
  ELSE IF ret.num > Len(o) THEN Append(o, {caller})
  ELSE [o EXCEPT ![ret.num] = @ \cup {caller}]

CallMergeA11yProps(cap) ==
  /\ Allocated < cap
  /\ \E props \in ArgLists :
       LET r == mergeA11yProps(heap, props)
       IN /\ heap' = r.heap
          /\ before' = heap
          /\ call' = [op |-> "mergeA11yProps", args |-> props,
                      outcome |-> r.outcome, ret |-> r.ret]
          /\ owners' = Received(owners, r.ret)
  /\ written' = {}
  /\ UNCHANGED <<writes, caller>>

\* A caller evaluates an object literal of its own.
NewLiteral(cap) ==
  /\ Allocated < cap
  /\ \E obj \in Literals : Returns("literal", <<>>, obj)

\* A caller sets a property of an object it holds a reference to.
Write ==
  /\ writes < MaxWrites
  /\ \E i \in {j \in 1..Len(heap) : caller \in owners[j]}, w \in WriteSet :
       /\ heap' = [heap EXCEPT ![i] = Put(heap[i], w[1], w[2])]
       /\ written' = written \cup {i}
  /\ writes' = writes + 1
  /\ UNCHANGED <<before, call, caller, owners>>

\* Another caller runs: calls are synchronous, so callers alternate only
\* between calls and writes, never inside one.
Switch ==
  /\ caller' \in Callers \ {caller}
  /\ UNCHANGED <<heap, before, call, written, writes, owners>>

Next ==
  \/ CallCreateLiveRegion(FALSE, MaxObjects)
  \/ CallCreateSkipLinkProps(FALSE, MaxObjects)
  \/ CallCreateDisclosureProps(FALSE, MaxObjects)
  \/ CallCreatePressedProps(FALSE, MaxObjects)
  \/ CallCreateSelectedProps(FALSE, MaxObjects)
  \/ CallCreateCheckedProps(FALSE, MaxObjects)
  \/ CallCreateDialogTriggerProps(FALSE, MaxObjects)
  \/ CallCreateFormFieldProps(FALSE, MaxObjects)
  \/ CallCreateDescribedByProps(FALSE, MaxObjects)
  \/ CallCreateLabelledByProps(FALSE, MaxObjects)
  \/ CallMergeA11yProps(MaxObjects)
  \/ NewLiteral(MaxObjects)

Spec == Init /\ [][Next]_vars

\* The mappers alone, each over its whole input domain.
NextMappers ==
  \/ CallCreateLiveRegion(TRUE, MaxMapperCalls)
  \/ CallCreateSkipLinkProps(TRUE, MaxMapperCalls)
  \/ CallCreateDisclosureProps(TRUE, MaxMapperCalls)
  \/ CallCreatePressedProps(TRUE, MaxMapperCalls)
  \/ CallCreateSelectedProps(TRUE, MaxMapperCalls)
  \/ CallCreateCheckedProps(TRUE, MaxMapperCalls)
  \/ CallCreateDialogTriggerProps(TRUE, MaxMapperCalls)
  \/ CallCreateFormFieldProps(TRUE, MaxMapperCalls)
  \/ CallCreateDescribedByProps(TRUE, MaxMapperCalls)
  \/ CallCreateLabelledByProps(TRUE, MaxMapperCalls)

SpecMappers == Init /\ [][NextMappers]_vars

\* Callers that write to the objects they hold.
NextWrites ==
  \/ CallMergeA11yProps(MaxHeld)
  \/ NewLiteral(MaxHeld)
  \/ Write

SpecWrites == Init /\ [][NextWrites]_vars

\* Two call sites that call, merge and write in any order.
NextCallers ==
  \/ CallMapper(MaxHeld)
  \/ CallMergeA11yProps(MaxHeld)
  \/ Write
  \/ Switch

SpecCallers == Init /\ [][NextCallers]_vars

\* Repeated mapper calls, and writes to what they returned.
NextFresh ==
  \/ CallMapper(MaxFresh)
  \/ Write

SpecFresh == Init /\ [][NextFresh]_vars

---------------------------------------------------------------------------
(* Properties.                                                             *)

\* The last library call was mergeA11yProps.
MergeCalled == call.op = "mergeA11yProps"

\* mergeA11yProps has just returned: no caller has written to an object since.
MergeReturned == MergeCalled /\ written = {}

\* The object the last call returned.
Result == heap[call.ret.num]

\* Argument i of the last mergeA11yProps call as it was when the call began.
S(i) == before[call.args[i].num]

\* The arguments of the last mergeA11yProps call that have the key k.
Holders(k) == {i \in 1..Len(call.args) : k \in DOMAIN S(i)}

Largest(I) == CHOOSE i \in I : \A j \in I : j <= i

\* C1: the result of mergeA11yProps(S1..Sn) has exactly the keys of S1..Sn
\* together, and under each key the value of the last argument that has it.
C1_LastArgumentWins ==
  MergeReturned =>
    /\ call.outcome = "return"
    /\ call.ret.type = "object"
    /\ DOMAIN Result = UNION {DOMAIN S(i) : i \in 1..Len(call.args)}
    /\ \A k \in DOMAIN Result : Result[k] = S(Largest(Holders(k)))[k]

\* A merge in which a later argument overrode a key of an earlier one.
C1_Witness ==
  /\ MergeCalled
  /\ Len(call.args) = 2
  /\ \E k \in DOMAIN S(1) \cap DOMAIN S(2) :
       /\ S(1)[k] # S(2)[k]
       /\ Result[k] = S(2)[k]
  /\ DOMAIN S(1) \ DOMAIN S(2) # {}

\* C2: mergeA11yProps leaves every argument with the keys and values it had
\* when the call began, overridden keys included.
C2_ArgumentsNotMutated ==
  MergeReturned =>
    \A i \in 1..Len(call.args) : heap[call.args[i].num] = S(i)

\* A merge whose second argument overrode a key of the first, which still
\* holds its own value.
C2_Witness ==
  /\ MergeCalled
  /\ Len(call.args) = 2
  /\ call.args[1] # call.args[2]
  /\ \E k \in DOMAIN S(1) \cap DOMAIN S(2) :
       /\ S(1)[k] # S(2)[k]
       /\ Result[k] = S(2)[k]
       /\ heap[call.args[1].num][k] = S(1)[k]

\* C3: mergeA11yProps(A) returns an object other than A with the content of
\* A; writes to the result afterwards leave A as it was, and writes to A
\* afterwards leave the result as it was.
C3_SingleArgumentCopy ==
  (MergeCalled /\ Len(call.args) = 1) =>
    /\ call.ret.type = "object"
    /\ call.ret # call.args[1]
    /\ written = {} => Result = S(1)
    /\ written \subseteq {call.ret.num} => heap[call.args[1].num] = S(1)
    /\ written \subseteq {call.args[1].num} => Result = S(1)

\* The result of mergeA11yProps(A) was written to and differs from A, which
\* is unchanged.
C3_Witness ==
  /\ MergeCalled
  /\ Len(call.args) = 1
  /\ written = {call.ret.num}
  /\ DOMAIN S(1) # {}
  /\ Result # S(1)
  /\ heap[call.args[1].num] = S(1)

\* C4: mergeA11yProps() with no argument returns an object with no keys.
C4_NoArgumentsEmpty ==
  (MergeReturned /\ Len(call.args) = 0) =>
    /\ call.outcome = "return"
    /\ call.ret.type = "object"
    /\ DOMAIN Result = {}

\* mergeA11yProps() returned a new, empty object.
C4_Witness ==
  /\ MergeCalled
  /\ Len(call.args) = 0
  /\ call.outcome = "return"
  /\ call.ret = Ref(Len(heap))
  /\ Result = EmptyObject

\* The last library call was a call of the factory `op` that returned, with
\* its result not written to since.
Returned(op) ==
  /\ call.op = op
  /\ call.outcome = "return"
  /\ call.ret.type = "object"
  /\ written = {}

\* The string mirror of the boolean b.
Mirror(b) == IF b = Bool(TRUE) THEN Str("true") ELSE Str("false")

\* The options record the last createLiveRegion call was given, {} when the
\* argument was left out.
GivenOptions == IF Len(call.args) = 0 THEN EmptyObject ELSE call.args[1]

\* C5: every boolean-mirroring output is the string "true" when the boolean
\* input is true and the string "false" when it is false: aria-pressed,
\* aria-selected, aria-expanded (disclosure and dialog trigger),
\* aria-required, and aria-atomic / aria-busy for a supplied option.
C5_BooleanMirror ==
  /\ Returned("createPressedProps") =>
       Get(Result, "aria-pressed") = Mirror(call.args[1])
  /\ Returned("createSelectedProps") =>
       Get(Result, "aria-selected") = Mirror(call.args[1])
  /\ Returned("createDisclosureProps") =>
       Get(Result, "aria-expanded") = Mirror(call.args[1])
  /\ Returned("createDialogTriggerProps") =>
       Get(Result, "aria-expanded") = Mirror(call.args[2])
  /\ Returned("createFormFieldProps") =>
       Get(Result, "aria-required") = Mirror(call.args[1])
  /\ Returned("createLiveRegion") =>
       /\ "atomic" \in DOMAIN GivenOptions =>
            Get(Result, "aria-atomic") = Mirror(GivenOptions["atomic"])
       /\ "busy" \in DOMAIN GivenOptions =>
            Get(Result, "aria-busy") = Mirror(GivenOptions["busy"])

\* createSelectedProps(true) returned aria-selected "true".
C5_Witness ==
  /\ Returned("createSelectedProps")
  /\ call.args[1] = Bool(TRUE)
  /\ Get(Result, "aria-selected") = Str("true")

\* C6: createCheckedProps returns the one key aria-checked, "true" for true,
\* "false" for false and the literal "mixed" for "mixed".
C6_CheckedTriState ==
  Returned("createCheckedProps") =>
    /\ DOMAIN Result = {"aria-checked"}
    /\ call.args[1] = Bool(TRUE) => Result["aria-checked"] = Str("true")
    /\ call.args[1] = Bool(FALSE) => Result["aria-checked"] = Str("false")
    /\ call.args[1] = Str("mixed") => Result["aria-checked"] = Str("mixed")
    /\ Result["aria-checked"] \in {Str("true"), Str("false"), Str("mixed")}

\* createCheckedProps("mixed") returned aria-checked "mixed".
C6_Witness ==
  /\ Returned("createCheckedProps")
  /\ call.args[1] = Str("mixed")
  /\ Result = ("aria-checked" :> Str("mixed"))

\* C7: createFormFieldProps(required, invalid) always has aria-required, the
\* mirror of required, and has aria-invalid exactly when invalid is true,
\* with the value "true"; no other key.
C7_InvalidOnlyWhenTrue ==
  (Returned("createFormFieldProps") /\ Len(call.args) = 2) =>
    /\ Get(Result, "aria-required") = Mirror(call.args[1])
    /\ "aria-invalid" \in DOMAIN Result <=> call.args[2] = Bool(TRUE)
    /\ "aria-invalid" \in DOMAIN Result =>
         Result["aria-invalid"] = Str("true")
    /\ DOMAIN Result \subseteq {"aria-required", "aria-invalid"}

\* createFormFieldProps(true, false) returned aria-required alone.
C7_Witness ==
  /\ Returned("createFormFieldProps")
  /\ call.args = <<Bool(TRUE), Bool(FALSE)>>
  /\ DOMAIN Result = {"aria-required"}

\* The four defaults of createLiveRegion.
LiveRegionDefaults ==
  ("aria-live" :> Str("polite")) @@ ("aria-atomic" :> Str("false")) @@
  ("aria-relevant" :> Str("additions")) @@ ("aria-busy" :> Str("false"))

\* C8: createLiveRegion() and createLiveRegion({}) return exactly
\* aria-live "polite", aria-atomic "false", aria-relevant "additions" and
\* aria-busy "false".
C8_LiveRegionDefaults ==
  (Returned("createLiveRegion") /\ DOMAIN GivenOptions = {}) =>
    Result = LiveRegionDefaults

\* createLiveRegion() was called with no argument and returned four keys.
C8_Witness ==
  /\ Returned("createLiveRegion")
  /\ Len(call.args) = 0
  /\ DOMAIN Result = {"aria-live", "aria-atomic", "aria-relevant", "aria-busy"}

\* The value expected under the key aria-<field>: the supplied option
\* (mirrored for the two flags), the default when the option is missing.
Expected(field) ==
  IF field \in DOMAIN GivenOptions
  THEN IF field \in {"atomic", "busy"}
       THEN Mirror(GivenOptions[field])
       ELSE GivenOptions[field]
  ELSE LiveRegionDefaults["aria-" \o field]

\* C9: whichever of the four options are supplied, createLiveRegion returns
\* exactly the four keys, each decided by its own option alone: supplied
\* live and relevant verbatim, supplied atomic and busy mirrored, a missing
\* option as its default.
C9_OptionsIndependent ==
  Returned("createLiveRegion") =>
    /\ DOMAIN Result = {"aria-live", "aria-atomic", "aria-relevant", "aria-busy"}
    /\ \A field \in OptionFields : Result["aria-" \o field] = Expected(field)

\* createLiveRegion({busy: true}) returned aria-busy "true" and the three
\* other keys at their defaults.
C9_Witness ==
  /\ Returned("createLiveRegion")
  /\ Len(call.args) = 1
  /\ GivenOptions = ("busy" :> Bool(TRUE))
  /\ Result = ("aria-live" :> Str("polite")) @@ ("aria-atomic" :> Str("false")) @@
              ("aria-relevant" :> Str("additions")) @@ ("aria-busy" :> Str("true"))

\* C10: createDisclosureProps(expanded, id) returns exactly aria-expanded,
\* the mirror of expanded, and aria-controls, the id as given.
C10_Disclosure ==
  Returned("createDisclosureProps") =>
    /\ DOMAIN Result = {"aria-expanded", "aria-controls"}
    /\ Result["aria-expanded"] = Mirror(call.args[1])
    /\ Result["aria-controls"] = call.args[2]

\* createDisclosureProps(false, "panel-1") returned "false" and "panel-1".
C10_Witness ==
  /\ Returned("createDisclosureProps")
  /\ call.args = <<Bool(FALSE), Str("panel-1")>>
  /\ Result = ("aria-expanded" :> Str("false")) @@
              ("aria-controls" :> Str("panel-1"))

\* C11: createDialogTriggerProps(dialogId, isOpen) returns exactly three
\* keys: aria-haspopup is "dialog" whatever isOpen is, aria-controls is the
\* id as given and aria-expanded is the mirror of isOpen.
C11_DialogTrigger ==
  Returned("createDialogTriggerProps") =>
    /\ DOMAIN Result = {"aria-haspopup", "aria-controls", "aria-expanded"}
    /\ Result["aria-haspopup"] = Str("dialog")
    /\ Result["aria-controls"] = call.args[1]
    /\ Result["aria-expanded"] = Mirror(call.args[2])

\* A trigger of a closed dialog: the popup kind is still "dialog".
C11_Witness ==
  /\ Returned("createDialogTriggerProps")
  /\ call.args = <<Str("main"), Bool(FALSE)>>
  /\ Result["aria-haspopup"] = Str("dialog")
  /\ Result["aria-expanded"] = Str("false")

\* The href a skip link to the given target must carry.
SkipLinkHref(targetId) ==
  CASE targetId = Str("") -> Str("#")
    [] targetId = Str("main") -> Str("#main")
    [] targetId = Str("panel-1") -> Str("#panel-1")

\* C12: createSkipLinkProps(targetId) returns exactly href, the target id
\* behind a "#" that is always there, and tabIndex, the number 0.
C12_SkipLink ==
  Returned("createSkipLinkProps") =>
    /\ DOMAIN Result = {"href", "tabIndex"}
    /\ Result["href"] = SkipLinkHref(call.args[1])
    /\ Result["tabIndex"] = Num(0)

\* A skip link to the empty id: the href is the lone fragment marker.
C12_Witness ==
  /\ Returned("createSkipLinkProps")
  /\ call.args = <<Str("")>>
  /\ Result = ("href" :> Str("#")) @@ ("tabIndex" :> Num(0))

\* C13: createDescribedByProps(id) is exactly {aria-describedby: id} and
\* createLabelledByProps(id) is exactly {aria-labelledby: id}.
C13_Relations ==
  /\ Returned("createDescribedByProps") =>
       Result = ("aria-describedby" :> call.args[1])
  /\ Returned("createLabelledByProps") =>
       Result = ("aria-labelledby" :> call.args[1])

\* A labelling relation to "main".
C13_Witness ==
  /\ Returned("createLabelledByProps")
  /\ call.args = <<Str("main")>>
  /\ DOMAIN Result = {"aria-labelledby"}
  /\ Result["aria-labelledby"] = Str("main")

\* The exported object of the given name, as it is now.
Static(name) == heap[Import(name).num]

\* C14: the four static sets hold exactly: decorative {aria-hidden: "true"},
\* disabledProps {aria-disabled: "true", tabIndex: -1}, statusMessageProps
\* {role: "status", aria-live: "polite"} and alertMessageProps
\* {role: "alert", aria-live: "assertive"}.
C14_StaticSets ==
  /\ DOMAIN Static("decorative") = {"aria-hidden"}
  /\ Static("decorative")["aria-hidden"] = Str("true")
  /\ DOMAIN Static("disabledProps") = {"aria-disabled", "tabIndex"}
  /\ Static("disabledProps")["aria-disabled"] = Str("true")
  /\ Static("disabledProps")["tabIndex"] = Num(-1)
  /\ DOMAIN Static("statusMessageProps") = {"role", "aria-live"}
  /\ Static("statusMessageProps")["role"] = Str("status")
  /\ Static("statusMessageProps")["aria-live"] = Str("polite")
  /\ DOMAIN Static("alertMessageProps") = {"role", "aria-live"}
  /\ Static("alertMessageProps")["role"] = Str("alert")
  /\ Static("alertMessageProps")["aria-live"] = Str("assertive")

\* A caller has copied disabledProps through mergeA11yProps and reads the
\* two entries off the copy.
C14_Witness ==
  /\ MergeReturned
  /\ call.args = <<Import("disabledProps")>>
  /\ call.ret # Import("disabledProps")
  /\ Result["aria-disabled"] = Str("true")
  /\ Result["tabIndex"] = Num(-1)

\* C15: after any sequence of mapper and mergeA11yProps calls, merges that
\* take a static set as an argument in any position included, the four
\* static sets and the two style presets hold the contents they were
\* created with.
C15_StaticsUnchanged ==
  \A i \in 1..Len(ModuleHeap) : heap[i] = ModuleHeap[i]

\* A merge took a static set first and a caller's object that adds a key
\* second, after an earlier call had already returned: the result has the
\* added key, the static set does not.
C15_Witness ==
  /\ MergeReturned
  /\ Len(call.args) = 2
  /\ call.args[1] = Import("statusMessageProps")
  /\ call.args[2] \notin StaticRefs
  /\ "aria-label" \in DOMAIN Result
  /\ "aria-label" \notin DOMAIN Static("statusMessageProps")

\* The keys whose value states a boolean condition.
StateKeys ==
  {"aria-pressed", "aria-expanded", "aria-selected", "aria-checked",
   "aria-atomic", "aria-busy", "aria-required", "aria-invalid",
   "aria-hidden", "aria-disabled"}

\* The strings that may stand for the state under key k.
StateStrings(k) ==
  IF k = "aria-checked" THEN {"true", "false", "mixed"} ELSE {"true", "false"}

\* C16: no boolean state is emitted as a native boolean: in every mapper
\* output the value under aria-pressed, aria-expanded, aria-selected,
\* aria-checked, aria-atomic, aria-busy, aria-required and aria-invalid is
\* the string "true" or "false" (or "mixed" under aria-checked), and so are
\* aria-hidden and aria-disabled in the static sets.
C16_StringBooleans ==
  \A i \in 1..Len(heap) :
    \A k \in DOMAIN heap[i] \cap StateKeys :
      /\ heap[i][k].type = "string"
      /\ heap[i][k].str \in StateStrings(k)

\* createPressedProps(true) returned the string "true".
C16_Witness ==
  /\ Returned("createPressedProps")
  /\ call.args = <<Bool(TRUE)>>
  /\ Result["aria-pressed"].type = "string"
  /\ Result["aria-pressed"].str = "true"
  /\ Static("decorative")["aria-hidden"].type = "string"

\* C17: every attribute set the operations can produce from in-domain
\* inputs (a mapper output, a static set, a mergeA11yProps result over
\* such sets) holds under each of its keys a value of the domain declared
\* for that key, e.g. aria-live one of off, polite, assertive and tabIndex
\* an integer.
C17_DeclaredDomains ==
  \A i \in 1..Len(heap) :
    i \notin {Import("srOnly").num, Import("srOnlyFocusable").num} =>
      \A k \in DOMAIN heap[i] : Declared(k, heap[i][k])

\* A merge of a static set with a mapper output that overrides its
\* aria-live: the result holds an enumerated aria-live and a role.
C17_Witness ==
  /\ MergeReturned
  /\ Len(call.args) = 2
  /\ call.args[1] = Import("alertMessageProps")
  /\ call.args[2] \notin StaticRefs
  /\ Result["aria-live"] = Str("polite")
  /\ Result["role"] = Str("alert")
  /\ "aria-busy" \in DOMAIN Result

\* The heap h with every object emptied that is not an argument of the call.
Isolated(h, args) ==
  [i \in 1..Len(h) |->
     IF \E j \in 1..Len(args) : args[j] = Ref(i) THEN h[i] ELSE EmptyObject]

\* What the last call returns when nothing but its arguments is there.
Alone ==
  IF MergeCalled
  THEN LET r == mergeA11yProps(Isolated(before, call.args), call.args)
       IN [outcome |-> r.outcome,
           obj |-> IF r.ret.type = "object" THEN r.heap[r.ret.num]
                   ELSE EmptyObject]
  ELSE [outcome |-> "return", obj |-> Apply(call.op, call.args)]

\* C18: calls of the mappers and of mergeA11yProps by any number of callers
\* need no coordination: in whatever order the calls run, each returns what
\* it returns when run alone on the same arguments, and it writes nothing
\* but the object it returns.  A call is synchronous and runs to its end, so
\* the callers' calls interleave as whole calls: any order of the calls of
\* Spec is a schedule of some callers.
C18_CallsIndependent ==
  (call.op \in MapperOps \cup {"mergeA11yProps"} /\ written = {}) =>
    /\ call.outcome = Alone.outcome
    /\ call.ret = Ref(Len(before) + 1)
    /\ Len(heap) = Len(before) + 1
    /\ Result = Alone.obj
    /\ \A i \in 1..Len(before) : heap[i] = before[i]

\* A merge ran right after an unrelated call had returned a non-empty
\* object that is not among its arguments: none of that object's keys is
\* in the result.
C18_Witness ==
  /\ MergeReturned
  /\ Len(before) > Len(ModuleHeap)
  /\ call.args = <<Import("decorative")>>
  /\ DOMAIN before[Len(before)] # {}
  /\ DOMAIN Result = {"aria-hidden"}

\* The attribute sets on the heap: the four static sets and the objects
\* the calls returned.
AttributeSets ==
  {r.num : r \in StaticRefs} \cup (Len(ModuleHeap) + 1)..Len(heap)

\* A caller's write changes no attribute set that another caller holds.
WritesArePrivate ==
  writes' # writes =>
    \A j \in AttributeSets :
      owners[j] \ {caller} # {} => heap'[j] = heap[j]

\* The same of the sets the calls returned, the static sets left aside.
ReturnedSetsArePrivate ==
  [][writes' # writes =>
       \A j \in (Len(ModuleHeap) + 1)..Len(heap) :
         owners[j] \ {caller} # {} => heap'[j] = heap[j]]_vars

\* C19: no set held by one caller is shared mutably with another: a write a
\* caller performs on a set it got from a mapper, from mergeA11yProps or by
\* taking a static set is never seen in a set another caller gets or holds.
C19_NoSharedSets == [][WritesArePrivate]_vars

\* The last library call was a call of a mapper.
MapperCalled == call.op \in MapperOps

\* C20: every mapper call creates a fresh set: the set it returns is an
\* object distinct from every set returned before, its content is what the
\* mapper yields for those inputs (so equal inputs give equal content), and
\* a write to the set of one call changes the set of no earlier or later
\* call.
C20_FreshSets ==
  MapperCalled =>
    /\ call.ret.num > Len(before)
    /\ Len(heap) = Len(before) + 1
    /\ \A i \in 1..Len(before) : i \notin written => heap[i] = before[i]
    /\ call.ret.num \notin written => Result = Apply(call.op, call.args)

\* The same mapper was called twice with equal inputs, and the caller then
\* wrote to the set of the first call: the two sets were equal in content,
\* the first has changed, the second has not.
C20_Witness ==
  /\ MapperCalled
  /\ Len(before) = Len(ModuleHeap) + 1
  /\ call.ret = Ref(Len(before) + 1)
  /\ before[Len(before)] = Apply(call.op, call.args)
  /\ written = {Len(before)}
  /\ heap[Len(before)] # before[Len(before)]
  /\ Result = Apply(call.op, call.args)

\* The keys under which the mapper op emits the identifier it was given,
\* and the position of that identifier in the argument list.
IdKeys(op) ==
  CASE op = "createDisclosureProps" -> <<"aria-controls", 2>>
    [] op = "createDialogTriggerProps" -> <<"aria-controls", 1>>
    [] op = "createDescribedByProps" -> <<"aria-describedby", 1>>
    [] op = "createLabelledByProps" -> <<"aria-labelledby", 1>>

\* C21: no operation has an error outcome: every mapper call returns a set,
\* mergeA11yProps returns a set for any number of arguments, none included,
\* and identifiers are not validated: the empty identifier is passed on as
\* it is (aria-controls = "", href = "#"), not rejected.
C21_NoErrorOutcome ==
  /\ MapperCalled =>
       /\ call.outcome = "return"
       /\ call.ret.type = "object"
       /\ call.ret.num \in 1..Len(heap)
  /\ \A props \in ArgLists :
       /\ mergeA11yProps(heap, props).outcome = "return"
       /\ mergeA11yProps(heap, props).ret.type = "object"
  /\ \A op \in {"createDisclosureProps", "createDialogTriggerProps",
                "createDescribedByProps", "createLabelledByProps"} :
       (Returned(op) /\ call.args[IdKeys(op)[2]] = Str("")) =>
         /\ IdKeys(op)[1] \in DOMAIN Result
         /\ Result[IdKeys(op)[1]] = Str("")
  /\ (Returned("createSkipLinkProps") /\ call.args[1] = Str("")) =>
       /\ "href" \in DOMAIN Result
       /\ Result["href"] = Str("#")

\* createDisclosureProps was called with the empty id and returned it under
\* aria-controls.
C21_Witness ==
  /\ Returned("createDisclosureProps")
  /\ call.args = <<Bool(TRUE), Str("")>>
  /\ Result["aria-controls"] = Str("")
  /\ mergeA11yProps(heap, <<>>).outcome = "return"

\* C22: the visually-hidden preset srOnly has exactly the entries
\* position absolute, width 1px, height 1px, padding 0, margin -1px,
\* overflow hidden, clip rect(0, 0, 0, 0), whiteSpace nowrap, borderWidth 0.
C22_SrOnly ==
  /\ DOMAIN Static("srOnly") =
       {"position", "width", "height", "padding", "margin", "overflow",
        "clip", "whiteSpace", "borderWidth"}
  /\ Static("srOnly")["position"] = Str("absolute")
  /\ Static("srOnly")["width"] = Str("1px")
  /\ Static("srOnly")["height"] = Str("1px")
  /\ Static("srOnly")["padding"] = Str("0")
  /\ Static("srOnly")["margin"] = Str("-1px")
  /\ Static("srOnly")["overflow"] = Str("hidden")
  /\ Static("srOnly")["clip"] = Str("rect(0, 0, 0, 0)")
  /\ Static("srOnly")["whiteSpace"] = Str("nowrap")
  /\ Static("srOnly")["borderWidth"] = Str("0")

\* The library has been called and the preset has its nine entries, the
\* zero border among them.
C22_Witness ==
  /\ call.op # "import"
  /\ Cardinality(DOMAIN Static("srOnly")) = 9
  /\ Static("srOnly")["borderWidth"] = Str("0")
  /\ Static("srOnly")["clip"] = Str("rect(0, 0, 0, 0)")

\* The style in effect when srOnlyFocusable is applied over srOnly:
\* {...srOnly, ...srOnlyFocusable}.
FocusedStyle ==
  ObjectAssign(Append(heap, EmptyObject), Len(heap) + 1,
               <<Import("srOnly"), Import("srOnlyFocusable")>>)[Len(heap) + 1]

\* The entries srOnlyFocusable is said to have.
FocusableEntries ==
  /\ Get(Static("srOnlyFocusable"), "position") = Str("absolute")
  /\ Get(Static("srOnlyFocusable"), "width") = Str("auto")
  /\ Get(Static("srOnlyFocusable"), "height") = Str("auto")
  /\ Get(Static("srOnlyFocusable"), "overflow") = Str("visible")
  /\ Get(Static("srOnlyFocusable"), "clip") = Str("auto")
  /\ Get(Static("srOnlyFocusable"), "whiteSpace") = Str("normal")
  /\ "padding" \in DOMAIN Static("srOnlyFocusable")
  /\ Get(Static("srOnlyFocusable"), "padding") \notin {Str("0"), Str("0px")}

\* Every property of the set keys that srOnly sets is set by
\* srOnlyFocusable to another value, and that value is the one in effect
\* when srOnlyFocusable is applied over srOnly.
Revealed(keys) ==
  \A k \in keys :
    /\ k \in DOMAIN Static("srOnlyFocusable")
    /\ Static("srOnlyFocusable")[k] # Static("srOnly")[k]
    /\ FocusedStyle[k] # Static("srOnly")[k]

\* C23: srOnlyFocusable keeps position absolute and has width auto, height
\* auto, overflow visible, clip auto, whiteSpace normal and a non-zero
\* padding; every property that srOnly sets to a hiding value (each but
\* position) is in srOnlyFocusable with a revealing value, so that no hiding
\* value is in effect once srOnlyFocusable is applied over srOnly.
C23_Focusable ==
  /\ FocusableEntries
  /\ Revealed(DOMAIN Static("srOnly") \ {"position"})

\* C23 as the code has it: the same, but for borderWidth, which
\* srOnlyFocusable does not set: applied over srOnly, the zero border of
\* srOnly stays in effect.
C23_FocusableButBorder ==
  /\ FocusableEntries
  /\ Revealed(DOMAIN Static("srOnly") \ {"position", "borderWidth"})
  /\ "borderWidth" \notin DOMAIN Static("srOnlyFocusable")
  /\ FocusedStyle["borderWidth"] = Str("0")
  /\ FocusedStyle["position"] = Str("absolute")

\* The library has been called; srOnlyFocusable applied over srOnly gives
\* the revealed box with the border of srOnly.
C23_Witness ==
  /\ call.op # "import"
  /\ FocusedStyle["width"] = Str("auto")
  /\ FocusedStyle["margin"] = Str("0")
  /\ FocusedStyle["overflow"] = Str("visible")
  /\ FocusedStyle["borderWidth"] = Static("srOnly")["borderWidth"]

\* The keys each mapper emits for every input.
Shape(op) ==
  CASE op = "createLiveRegion" ->
         {"aria-live", "aria-atomic", "aria-relevant", "aria-busy"}
    [] op = "createSkipLinkProps" -> {"href", "tabIndex"}
    [] op = "createDisclosureProps" -> {"aria-expanded", "aria-controls"}
    [] op = "createPressedProps" -> {"aria-pressed"}
    [] op = "createSelectedProps" -> {"aria-selected"}
    [] op = "createCheckedProps" -> {"aria-checked"}
    [] op = "createDialogTriggerProps" ->
         {"aria-haspopup", "aria-controls", "aria-expanded"}
    [] op = "createFormFieldProps" -> {"aria-required"}
    [] op = "createDescribedByProps" -> {"aria-describedby"}
    [] op = "createLabelledByProps" -> {"aria-labelledby"}

\* C24: every mapper returns a set of fixed shape: the keys of its output
\* are the same for all inputs, so they are the keys it emits for any one
\* input, whatever the values of the arguments.
C24_FixedShape ==
  MapperCalled =>
    DOMAIN Result = DOMAIN Apply(call.op, SampleArgs(call.op))

\* C24 as the code has it: the keys depend on the mapper alone, except for
\* createFormFieldProps, whose output has aria-required always and
\* aria-invalid exactly when invalid is true.
C24_ShapeButInvalid ==
  MapperCalled =>
    DOMAIN Result =
      Shape(call.op) \cup
      (IF call.op = "createFormFieldProps" /\ ToBoolean(Arg(call.args, 2))
       THEN {"aria-invalid"} ELSE {})

\* Two shapes of one mapper: the form field called as valid has one key,
\* where the same mapper emits two for an invalid field.
C24_Witness ==
  /\ Returned("createFormFieldProps")
  /\ call.args = <<Bool(TRUE), Bool(FALSE)>>
  /\ DOMAIN Result = {"aria-required"}
  /\ DOMAIN Apply("createFormFieldProps", <<Bool(TRUE), Bool(TRUE)>>) =
       {"aria-required", "aria-invalid"}

\* The content of what mergeA11yProps returns for the references props on
\* heap h.
Content(h, props) ==
  LET r == mergeA11yProps(h, props)
  IN IF r.ret.type = "object" THEN r.heap[r.ret.num] ELSE EmptyObject

\* C25: mergeA11yProps is associative: for all sets A, B, C the results of
\* mergeA11yProps(mergeA11yProps(A, B), C), of
\* mergeA11yProps(A, mergeA11yProps(B, C)) and of mergeA11yProps(A, B, C)
\* are equal in content.  A and B are the arguments of a call that has
\* returned, C any set there is.
C25_Associative ==
  (MergeReturned /\ Len(call.args) = 2) =>
    \A c \in AttributeRefs :
      LET a == call.args[1]
          b == call.args[2]
          bc == mergeA11yProps(heap, <<b, c>>)
      IN /\ Content(heap, <<call.ret, c>>) = Content(bc.heap, <<a, bc.ret>>)
         /\ Content(heap, <<call.ret, c>>) = Content(heap, <<a, b, c>>)

\* mergeA11yProps(alertMessageProps, B) has returned, B a caller's set with
\* a key of its own; merged with statusMessageProps as C, either way round,
\* the role and the aria-live of C win and the key of B stays.
C25_Witness ==
  /\ MergeReturned
  /\ Len(call.args) = 2
  /\ call.args[1] = Import("alertMessageProps")
  /\ call.args[2] \notin StaticRefs
  /\ "aria-label" \in DOMAIN S(2)
  /\ Content(heap, <<call.ret, Import("statusMessageProps")>>) =
       Put(Static("statusMessageProps"), "aria-label", S(2)["aria-label"])

\* C26: the invalid argument of createFormFieldProps defaults to false: for
\* either value of required, the call without a second argument returns
\* what createFormFieldProps(required, false) returns: aria-required alone,
\* no aria-invalid.
C26_InvalidDefault ==
  (Returned("createFormFieldProps") /\ Len(call.args) = 1) =>
    /\ Result = Apply("createFormFieldProps", <<call.args[1], Bool(FALSE)>>)
    /\ DOMAIN Result = {"aria-required"}
    /\ Result["aria-required"] = Mirror(call.args[1])

\* createFormFieldProps(false), the second argument left out.
C26_Witness ==
  /\ Returned("createFormFieldProps")
  /\ call.args = <<Bool(FALSE)>>
  /\ Result = ("aria-required" :> Str("false"))

\* The heap as it was when the last of the arguments of the last call had
\* just come to be: every later call is taken out of the history.
Earliest ==
  LET used == {call.args[j].num : j \in 1..Len(call.args)}
                \cup {Len(ModuleHeap)}
  IN SubSeq(before, 1, Largest(used))

\* C27: results depend on the arguments only, never on the calls made
\* before or between: a call of a mapper returns the mapper's value for its
\* inputs whatever the history, and a call of mergeA11yProps returns the
\* content that the same call returns with every call since its arguments
\* came to be taken out of the history, and that it returns when made
\* again after it.
C27_HistoryIndependent ==
  /\ (MapperCalled /\ written = {}) =>
       Result = Apply(call.op, call.args)
  /\ MergeReturned =>
       /\ Result = Content(Earliest, call.args)
       /\ Result = Content(heap, call.args)

\* mergeA11yProps(statusMessageProps) was called after a call that returned
\* a set with a key of its own: the result is what the call returns first
\* thing after the module has loaded.
C27_Witness ==
  /\ MergeReturned
  /\ call.args = <<Import("statusMessageProps")>>
  /\ Len(before) = Len(ModuleHeap) + 1
  /\ "aria-label" \in DOMAIN before[Len(before)]
  /\ Earliest = ModuleHeap
  /\ Result = Content(ModuleHeap, call.args)

\* The sets on the heap, older than the result of the last call, that are
\* what createFormFieldProps returns for an invalid field.
InvalidFields ==
  {i \in (Len(ModuleHeap) + 1)..Len(before) :
     \E r1 \in Booleans :
       heap[i] = Apply("createFormFieldProps", <<r1, Bool(TRUE)>>)}

\* C28: a valid form field omits aria-invalid, so a later valid state does
\* not clear an earlier invalid one through the composer: for all r1, r2,
\* mergeA11yProps(createFormFieldProps(r1, true),
\* createFormFieldProps(r2, false)) has aria-invalid = "true" still, and
\* aria-required the mirror of r2.
C28_InvalidSticks ==
  (Returned("createFormFieldProps") /\ Len(call.args) = 2
     /\ call.args[2] = Bool(FALSE)) =>
    \A i \in InvalidFields :
      LET merged == Content(heap, <<Ref(i), call.ret>>)
      IN /\ DOMAIN merged = {"aria-required", "aria-invalid"}
         /\ merged["aria-invalid"] = Str("true")
         /\ merged["aria-required"] = Mirror(call.args[1])

\* createFormFieldProps(true, true), then createFormFieldProps(false,
\* false): merged in that order they give a field not required and invalid.
C28_Witness ==
  /\ Returned("createFormFieldProps")
  /\ call.args = <<Bool(FALSE), Bool(FALSE)>>
  /\ InvalidFields = {Len(before)}
  /\ before[Len(before)]["aria-required"] = Str("true")
  /\ Content(heap, <<Ref(Len(before)), call.ret>>) =
       ("aria-required" :> Str("false")) @@ ("aria-invalid" :> Str("true"))

\* The sets A of C29: the set the last call returned, and the static sets
\* while there has been no call.
Operands ==
  IF call.ret.type = "object" /\ written = {}
  THEN {call.ret} ELSE StaticRefs

\* C29: the empty set is an identity of mergeA11yProps on either side and
\* merging is idempotent: for every set A, mergeA11yProps(A, {}),
\* mergeA11yProps({}, A) and mergeA11yProps(A, A) are equal in content to A;
\* and for sets A, B with no key in common mergeA11yProps(A, B) is equal in
\* content to mergeA11yProps(B, A).
C29_IdentityIdempotent ==
  LET withEmpty == Append(heap, EmptyObject)
      empty == Ref(Len(heap) + 1)
  IN \A a \in Operands :
       /\ Content(withEmpty, <<a, empty>>) = heap[a.num]
       /\ Content(withEmpty, <<empty, a>>) = heap[a.num]
       /\ Content(heap, <<a, a>>) = heap[a.num]
       /\ \A b \in AttributeRefs :
            DOMAIN heap[a.num] \cap DOMAIN heap[b.num] = {} =>
              Content(heap, <<a, b>>) = Content(heap, <<b, a>>)

\* createCheckedProps has returned: merged with {} it is itself, and merged
\* with disabledProps, which shares no key with it, it gives the same three
\* entries in either order.
C29_Witness ==
  /\ Returned("createCheckedProps")
  /\ Content(Append(heap, EmptyObject), <<call.ret, Ref(Len(heap) + 1)>>)
       = Result
  /\ DOMAIN Content(heap, <<call.ret, Import("disabledProps")>>) =
       {"aria-checked", "aria-disabled", "tabIndex"}
  /\ Content(heap, <<call.ret, Import("disabledProps")>>) =
       Content(heap, <<Import("disabledProps"), call.ret>>)

\* The heap with what the last call, createDialogTriggerProps(id, b), is
\* compared to put on top: createDisclosureProps(b, id) and the literal
\* {aria-haspopup: "dialog"}.
WithDisclosure ==
  Append(Append(heap, Apply("createDisclosureProps",
                            <<call.args[2], call.args[1]>>)),
         ("aria-haspopup" :> Str("dialog")))

\* C30: the dialog-trigger mapper agrees with the disclosure mapper on the
\* keys they share: for every id and boolean b, createDialogTriggerProps(id,
\* b) is equal in content to mergeA11yProps(createDisclosureProps(b, id),
\* {aria-haspopup: "dialog"}), so that merging the two mapper outputs for
\* the same id and b in either order gives the dialog-trigger set.
C30_DialogIsDisclosure ==
  Returned("createDialogTriggerProps") =>
    LET disclosure == Ref(Len(heap) + 1)
        haspopup == Ref(Len(heap) + 2)
    IN /\ Result = Content(WithDisclosure, <<disclosure, haspopup>>)
       /\ Result = Content(WithDisclosure, <<disclosure, call.ret>>)
       /\ Result = Content(WithDisclosure, <<call.ret, disclosure>>)

\* createDialogTriggerProps("", true): the disclosure set for the same
\* state and id, an empty one, merged with the popup kind is the same set.
C30_Witness ==
  /\ Returned("createDialogTriggerProps")
  /\ call.args = <<Str(""), Bool(TRUE)>>
  /\ WithDisclosure[Len(heap) + 1] =
       ("aria-expanded" :> Str("true")) @@ ("aria-controls" :> Str(""))
  /\ Content(WithDisclosure, <<Ref(Len(heap) + 1), Ref(Len(heap) + 2)>>)
       = Result

=============================================================================
